---- MODULE Spec2Model ----
(***************************************************************************)
(* BingMarkerService (src/services/bingmarkerservice.ts) and               *)
(* BingPolylineService (src/unnamed/part_000): the handle -> creation      *)
(* promise lookup tables, the reactions registered with .then() on the     *)
(* creation promises, and the native objects those reactions act on.       *)
(*                                                                         *)
(* Promises follow the ECMAScript job model: a reaction registered on a    *)
(* pending promise waits in that promise's reaction list, settling the     *)
(* promise moves the list to the microtask queue, and a reaction           *)
(* registered on a settled promise goes to the microtask queue at once.    *)
(* The microtask queue is FIFO. Native events are macrotasks: they occur   *)
(* only when the microtask queue is empty.                                 *)
(***************************************************************************)
EXTENDS Integers, Sequences, FiniteSets, Bags, TLC

\* Bounds of the model.
MaxPromises == 1    \* Add calls in a run of SpecDelete; the other specifications allow one more
MaxCalls == 1       \* Update / SetOptions / Delete calls in a run; SpecCalls allows one more
MaxSegs == 2        \* native segments of a multi-segment polyline
MaxParts == 2       \* parts of a polyline path
MaxSubs == 1        \* observables created, and subscriptions to them
MaxEvents == 1      \* native events

Markers == {"m1"}
Polylines == {"l1"}
Handles == Markers \cup Polylines

\* Map.get() of an absent key: undefined (== null is true of it).
None == 0

EventNames == {"click", "mousemove", "rightclick"}

MarkerUpdateOps ==
    {"UpdateAnchor", "UpdateMarkerPosition", "UpdateTitle", "UpdateLabel",
     "UpdateDraggable"}
DeleteOps == {"DeleteMarker", "DeletePolyline"}

\* The native method each mutating operation forwards to.
Mutator(op) ==
    CASE op = "UpdateAnchor" -> "SetAnchor"
      [] op = "UpdateMarkerPosition" -> "SetPosition"
      [] op = "UpdateTitle" -> "SetTitle"
      [] op = "UpdateLabel" -> "SetLabel"
      [] op = "UpdateDraggable" -> "SetDraggable"
      [] op = "UpdateIcon" -> "SetIcon"
      [] op = "SetOptions" -> "SetOptions"
      [] op = "UpdatePolyline" -> "SetPath"
      [] op = "DeleteMarker" -> "DeleteMarker"
      [] op = "DeletePolyline" -> "Delete"

VARIABLES
    marker,         \* the MapMarker directives' inputs read by AddMarker
    polyline,       \* the MapPolylineDirective inputs read by AddPolyline
    _markers,       \* BingMarkerService._markers: handle -> promise or None
    _polylines,     \* BingPolylineService._polylines
    promises,       \* the creation promises, in order of creation
    requests,       \* creation requests issued to the map/layer/cluster services
    reactions,      \* per promise: the reactions waiting for it to settle
    microtasks,     \* the microtask queue
    calls,          \* Update / SetOptions / Delete calls and their returned promises
    invoked,        \* bag of native method invocations
    dynamicMarkerCreated, \* emissions of marker.DynamicMarkerCreated, per marker
    observables,    \* what CreateEventObservable returned
    subs,           \* subscriptions to those observables
    listeners,      \* listeners registered on native objects
    events          \* native events that occurred

vars == <<marker, polyline, _markers, _polylines, promises, requests, reactions,
          microtasks, calls, invoked, dynamicMarkerCreated, observables, subs,
          listeners, events>>

svcVars == <<_markers, _polylines>>
obsVars == <<observables, subs, listeners, events>>
dirVars == <<marker, polyline>>

IsMarker(h) == h \in Markers

PromiseIds == 1..Len(promises)
CallIds == 1..Len(calls)
SubIds == 1..Len(subs)

\* this._markers.get(h) / this._polylines.get(h)
Get(h) == IF IsMarker(h) THEN _markers[h] ELSE _polylines[h]

\* The native objects a promise resolves to: segment i of promise p is <<p, i>>.
Segments(p, n) == [i \in 1..n |-> <<p, i>>]

\* const x = Array.isArray(p) ? p : [p]
AsArray(p) == promises[p].val

Range(s) == {s[i] : i \in 1..Len(s)}

\* An invocation of a native method; args are the arguments as far as the model
\* follows them (<<>> otherwise).
Invocation(native, method, src, id) ==
    [native |-> native, method |-> method, src |-> src, id |-> id, args |-> <<>>]

InvocationWith(native, method, src, id, args) ==
    [native |-> native, method |-> method, src |-> src, id |-> id, args |-> args]

\* How often the invocation was made.
Count(e) == CopiesIn(e, invoked)

\* Whether method was ever invoked on native.
Invoked(native, method) ==
    \E e \in BagToSet(invoked) : e.native = native /\ e.method = method

Deleted(native) == Invoked(native, "Delete") \/ Invoked(native, "DeleteMarker")

(***************************************************************************)
(* AddMarker: the routing of the creation request.                         *)
(***************************************************************************)
\* The custom layer tested before the cluster layer.
MarkerRouteLayerFirst(m) ==
    IF m.InCustomLayer THEN "layer"
    ELSE IF m.InClusterLayer THEN "cluster"
    ELSE "map"

MarkerRoute(m) ==
    IF m.InClusterLayer THEN "cluster"
    ELSE IF m.InCustomLayer THEN "layer"
    ELSE "map"

PolylineRoute(l) == IF l.InCustomLayer THEN "layer" ELSE "map"

\* Whether the creation promise has been fulfilled with its native object(s).
Fulfilled(p) == promises[p].state = "resolved"

\* A then() that does not wait for the promise: the reaction is queued at once.
ThenWithoutWaiting(p, r) ==
    /\ microtasks' = Append(microtasks, r)
    /\ UNCHANGED reactions

\* promise.then(r): r runs in a microtask once the promise is fulfilled, never
\* synchronously and never when the promise is rejected.
Then(p, r) ==
    IF Fulfilled(p)
    THEN /\ microtasks' = Append(microtasks, r)
         /\ UNCHANGED reactions
    ELSE IF promises[p].state = "pending"
    THEN /\ reactions' = [reactions EXCEPT ![p] = Append(@, r)]
         /\ UNCHANGED microtasks
    ELSE UNCHANGED <<reactions, microtasks>>

Reaction(kind, id, p) == [kind |-> kind, id |-> id, p |-> p]

\* The services as constructed: empty tables, nothing requested.
Constructed ==
    /\ _markers = [h \in Markers |-> None]
    /\ _polylines = [h \in Polylines |-> None]
    /\ promises = <<>>
    /\ requests = <<>>
    /\ reactions = <<>>
    /\ microtasks = <<>>
    /\ calls = <<>>
    /\ invoked = EmptyBag
    /\ dynamicMarkerCreated = [h \in Markers |-> <<>>]
    /\ observables = <<>>
    /\ subs = <<>>
    /\ listeners = {}
    /\ events = <<>>

(***************************************************************************)
(* BingMarkerService.AddMarker                                             *)
(***************************************************************************)
AddMarker(h) ==
    /\ LET p == Len(promises) + 1
       IN /\ requests' = Append(requests, [svc |-> MarkerRoute(marker[h]), promise |-> p])
          /\ promises' = Append(promises,
                [handle |-> h, state |-> "pending", val |-> Segments(p, 1),
                 segs |-> 1, isArray |-> FALSE])
          /\ _markers' = [_markers EXCEPT ![h] = p]
          /\ reactions' = Append(reactions,
                IF marker[h].IconInfo THEN <<Reaction("anchor", 0, p)>> ELSE <<>>)
    /\ UNCHANGED <<dirVars, _polylines, microtasks, calls, invoked,
                   dynamicMarkerCreated, obsVars>>

(***************************************************************************)
(* BingPolylineService.AddPolyline. The service that creates the polyline  *)
(* answers with one Polyline (n = 0) or with an array of n Polylines.      *)
(***************************************************************************)
AddPolyline(h, n) ==
    /\ LET p == Len(promises) + 1
       IN /\ requests' = Append(requests, [svc |-> PolylineRoute(polyline[h]), promise |-> p])
          /\ promises' = Append(promises,
                [handle |-> h, state |-> "pending",
                 val |-> Segments(p, IF n = 0 THEN 1 ELSE n),
                 segs |-> IF n = 0 THEN 1 ELSE n,
                 isArray |-> (n > 0)])
          /\ _polylines' = [_polylines EXCEPT ![h] = p]
          /\ reactions' = Append(reactions, <<>>)
    /\ UNCHANGED <<dirVars, _markers, microtasks, calls, invoked,
                   dynamicMarkerCreated, obsVars>>

(***************************************************************************)
(* The map / layer / cluster service settles a creation promise.           *)
(***************************************************************************)
Resolve(p) ==
    /\ p \in 1..Len(promises)
    /\ promises[p].state = "pending"
    /\ promises' = [promises EXCEPT ![p].state = "resolved"]
    /\ microtasks' = microtasks \o reactions[p]
    /\ reactions' = [reactions EXCEPT ![p] = <<>>]
    /\ UNCHANGED <<dirVars, svcVars, requests, calls, invoked,
                   dynamicMarkerCreated, obsVars>>

\* Creation fails: no reaction of the services runs (none has a rejection
\* handler) and the promises derived with then() are rejected.
Reject(p) ==
    /\ p \in 1..Len(promises)
    /\ promises[p].state = "pending"
    /\ promises' = [promises EXCEPT ![p].state = "rejected"]
    /\ reactions' = [reactions EXCEPT ![p] = <<>>]
    /\ calls' = [c \in 1..Len(calls) |->
                    IF \E i \in 1..Len(reactions[p]) :
                          reactions[p][i].kind = "call" /\ reactions[p][i].id = c
                    THEN [calls[c] EXCEPT !.status = "rejected"]
                    ELSE calls[c]]
    /\ UNCHANGED <<dirVars, svcVars, requests, microtasks, invoked,
                   dynamicMarkerCreated, obsVars>>

Call(op, h, p, status) ==
    [op |-> op, handle |-> h, p |-> p, status |-> status,
     hadEntry |-> (p # None),
     pendingAtCall |-> (p # None /\ promises[p].state = "pending"),
     k |-> 0]

\* this._markers.get(marker).then(...) with no guard: when the entry is absent
\* get() returns undefined and the property access throws a TypeError.
Unguarded(op, h) ==
    LET p == Get(h)
        c == Len(calls) + 1
    IN IF p = None
       THEN /\ calls' = Append(calls, Call(op, h, None, "threw"))
            /\ UNCHANGED <<reactions, microtasks>>
       ELSE /\ calls' = Append(calls, Call(op, h, p,
                        IF promises[p].state = "rejected" THEN "rejected" ELSE "pending"))
            /\ Then(p, Reaction("call", c, p))

\* const m = get(h); if (m == null) return Promise.resolve(); return m.then(...)
Guarded(op, h) ==
    LET p == Get(h)
        c == Len(calls) + 1
    IN IF p = None
       THEN /\ calls' = Append(calls, Call(op, h, None, "fulfilled"))
            /\ UNCHANGED <<reactions, microtasks>>
       ELSE /\ calls' = Append(calls, Call(op, h, p,
                        IF promises[p].state = "rejected" THEN "rejected" ELSE "pending"))
            /\ Then(p, Reaction("call", c, p))

callFrame == <<dirVars, svcVars, promises, requests, invoked,
               dynamicMarkerCreated, obsVars>>

\* UpdateAnchor, UpdateMarkerPosition, UpdateTitle, UpdateLabel, UpdateDraggable
MarkerUpdate(op, h) ==
    /\ Unguarded(op, h)
    /\ UNCHANGED callFrame

UpdateIcon(h) ==
    /\ Unguarded("UpdateIcon", h)
    /\ UNCHANGED callFrame

DeleteMarker(h) ==
    /\ Guarded("DeleteMarker", h)
    /\ UNCHANGED callFrame

SetOptions(h) ==
    /\ Unguarded("SetOptions", h)
    /\ UNCHANGED callFrame

UpdatePolyline(h) ==
    /\ Guarded("UpdatePolyline", h)
    /\ UNCHANGED callFrame

DeletePolyline(h) ==
    /\ Guarded("DeletePolyline", h)
    /\ UNCHANGED callFrame

(***************************************************************************)
(* The reactions, run from the head of the microtask queue.                *)
(***************************************************************************)
Head1 == microtasks[1]

IsCall(ops) ==
    /\ microtasks # <<>>
    /\ Head1.kind = "call"
    /\ calls[Head1.id].op \in ops

Invoke(S) == invoked' = invoked (+) SetToBag(S)

Fulfil(c) == calls' = [calls EXCEPT ![c].status = "fulfilled"]

\* Whether AddMarker's callback has invoked SetAnchor on native, going by the
\* invocations in bag.
AnchoredByAdd(native, bag) ==
    \E e \in BagToSet(bag) :
        e.native = native /\ e.method = "SetAnchor" /\ e.src = "add"

\* marker.DynamicMarkerCreated.emit(value), made by src / id on behalf of native
\* after the invocations in bag.
Emission(value, src, id, native, bag) ==
    [value |-> value, src |-> src, id |-> id, anchored |-> AnchoredByAdd(native, bag)]

\* The anchor left at the origin whatever the icon info says.
AnchorOrigin(iconInfo) == [x |-> 0, y |-> 0]

\* let p = { x: (size && markerOffsetRatio) ? size.width * markerOffsetRatio.x : 0,
\*           y: (size && markerOffsetRatio) ? size.height * markerOffsetRatio.y : 0 }
AnchorPoint(iconInfo) ==
    [x |-> IF iconInfo.size.set /\ iconInfo.markerOffsetRatio.set
           THEN iconInfo.size.width * iconInfo.markerOffsetRatio.x
           ELSE 0,
     y |-> IF iconInfo.size.set /\ iconInfo.markerOffsetRatio.set
           THEN iconInfo.size.height * iconInfo.markerOffsetRatio.y
           ELSE 0]

\* AddMarker's reaction for a marker with IconInfo:
\*   marker.DynamicMarkerCreated.emit(o.iconInfo); m.SetAnchor(p)
RunAnchor ==
    /\ microtasks # <<>>
    /\ Head1.kind = "anchor"
    /\ LET p == Head1.p
           h == promises[p].handle
           m == AsArray(p)[1]
       IN /\ dynamicMarkerCreated' =
                [dynamicMarkerCreated EXCEPT
                    ![h] = Append(@, Emission(marker[h].iconInfo, "add", p, m, invoked))]
          /\ Invoke({InvocationWith(m, "SetAnchor", "add", p,
                                    <<AnchorPoint(marker[h].iconInfo)>>)})
    /\ microtasks' = Tail(microtasks)
    /\ UNCHANGED <<dirVars, svcVars, promises, requests, reactions, calls, obsVars>>

\* m => m.SetAnchor(..) / SetPosition(..) / SetTitle(..) / SetLabel(..) / SetDraggable(..)
RunMarkerUpdate ==
    /\ IsCall(MarkerUpdateOps)
    /\ LET c == Head1.id
       IN /\ Invoke({Invocation(AsArray(Head1.p)[1], Mutator(calls[c].op), "call", c)})
          /\ Fulfil(c)
    /\ microtasks' = Tail(microtasks)
    /\ UNCHANGED <<dirVars, svcVars, promises, requests, reactions,
                   dynamicMarkerCreated, obsVars>>

\* UpdateIcon's reaction: SetIcon, and with IconInfo an emission of
\* DynamicMarkerCreated after it.
RunUpdateIcon ==
    /\ IsCall({"UpdateIcon"})
    /\ LET c == Head1.id
           h == calls[c].handle
           m == AsArray(Head1.p)[1]
       IN /\ Invoke({Invocation(m, "SetIcon", "call", c)})
          /\ dynamicMarkerCreated' =
                IF marker[h].IconInfo
                THEN [dynamicMarkerCreated EXCEPT
                        ![h] = Append(@, Emission(marker[h].iconInfo, "call", c, m, invoked'))]
                ELSE dynamicMarkerCreated
          /\ Fulfil(c)
    /\ microtasks' = Tail(microtasks)
    /\ UNCHANGED <<dirVars, svcVars, promises, requests, reactions, obsVars>>

\* Delete of the first segment alone, as if the value were never an array.
DeleteFirstOnly(x) == IF x = <<>> THEN {} ELSE {x[1]}

\* x.forEach(line => line.Delete()): the objects Delete is invoked on.
DeleteTargets(x) == Range(x)

\* this._markers.delete(marker) / this._polylines.delete(polyline)
TableDelete(table, h) == [table EXCEPT ![h] = None]

\* DeleteMarker's reaction: m.DeleteMarker(); this._markers.delete(marker)
RunDeleteMarker ==
    /\ IsCall({"DeleteMarker"})
    /\ LET c == Head1.id
       IN /\ Invoke({Invocation(n, "DeleteMarker", "call", c) :
                        n \in DeleteTargets(AsArray(Head1.p))})
          /\ _markers' = TableDelete(_markers, calls[c].handle)
          /\ Fulfil(c)
    /\ microtasks' = Tail(microtasks)
    /\ UNCHANGED <<dirVars, _polylines, promises, requests, reactions,
                   dynamicMarkerCreated, obsVars>>

\* SetOptions on the first segment alone, as if the value were never an array.
SetOptionsFirstOnly(x) == IF x = <<>> THEN {} ELSE {x[1]}

\* x.forEach(line => line.SetOptions(options)): the objects SetOptions is
\* invoked on.
SetOptionsTargets(x) == Range(x)

\* SetOptions' reaction: x.forEach(line => line.SetOptions(options))
RunSetOptions ==
    /\ IsCall({"SetOptions"})
    /\ LET c == Head1.id
       IN /\ Invoke({Invocation(n, "SetOptions", "call", c) :
                        n \in SetOptionsTargets(AsArray(Head1.p))})
          /\ Fulfil(c)
    /\ microtasks' = Tail(microtasks)
    /\ UNCHANGED <<dirVars, svcVars, promises, requests, reactions,
                   dynamicMarkerCreated, obsVars>>

\* polyline.Path as UpdatePolyline's reaction finds it: a flat list of len
\* points, or a list of len parts (nested).
Paths == [nested : BOOLEAN, len : 0..MaxParts]

\* const p = Path.length > 0 && Array.isArray(Path[0]) ? Path : [Path]; p.length
PathParts(path) == IF path.len > 0 /\ path.nested THEN path.len ELSE 1

\* l.splice(start) for 0 <= start: removes and returns the elements of l from
\* (0-based) index start on.
Splice(l, start) ==
    LET s == IF start > Len(l) THEN Len(l) ELSE start
    IN [kept |-> SubSeq(l, 1, s), removed |-> SubSeq(l, s + 1, Len(l))]

\* The start index UpdatePolyline passes to splice for a path of k parts.
SpliceStart(k) == k - 1

\* UpdatePolyline's reaction.
RunUpdatePolyline ==
    /\ IsCall({"UpdatePolyline"})
    /\ \E path \in Paths :
        LET c == Head1.id
            p == Head1.p
            x == AsArray(p)
            k == PathParts(path)
            cut == Splice(x, SpliceStart(k))
            surplus == promises[p].isArray /\ Len(x) > k
        IN /\ Invoke({Invocation(x[i], "SetPath", "call", c) :
                        i \in {j \in 1..Len(x) : k > j - 1}}
                     \cup (IF surplus
                           THEN {Invocation(n, "Delete", "call", c) : n \in Range(cut.removed)}
                           ELSE {}))
           /\ promises' = IF surplus THEN [promises EXCEPT ![p].val = cut.kept]
                          ELSE promises
           /\ calls' = [calls EXCEPT ![c].status = "fulfilled", ![c].k = k]
    /\ microtasks' = Tail(microtasks)
    /\ UNCHANGED <<dirVars, svcVars, requests, reactions, dynamicMarkerCreated, obsVars>>

\* DeletePolyline's reaction: x.forEach(line => line.Delete());
\* this._polylines.delete(polyline)
RunDeletePolyline ==
    /\ IsCall({"DeletePolyline"})
    /\ LET c == Head1.id
       IN /\ Invoke({Invocation(n, "Delete", "call", c) :
                        n \in DeleteTargets(AsArray(Head1.p))})
          /\ _polylines' = TableDelete(_polylines, calls[c].handle)
          /\ Fulfil(c)
    /\ microtasks' = Tail(microtasks)
    /\ UNCHANGED <<dirVars, _markers, promises, requests, reactions,
                   dynamicMarkerCreated, obsVars>>

(***************************************************************************)
(* CreateEventObservable, subscriptions and native events.                 *)
(***************************************************************************)
\* No event name singled out.
InertNever(h, eventName) == FALSE

\* BingPolylineService: if (eventName === 'mousemove') return b.asObservable();
\* if (eventName === 'rightclick') return b.asObservable(); with b a Subject
\* nothing ever calls next() on. BingMarkerService has no such case.
Inert(h, eventName) ==
    /\ ~IsMarker(h)
    /\ (eventName = "mousemove" \/ eventName = "rightclick")

CreateEventObservable(eventName, h) ==
    /\ observables' = Append(observables,
            [handle |-> h, eventName |-> eventName, inert |-> Inert(h, eventName)])
    /\ UNCHANGED <<dirVars, svcVars, promises, requests, reactions, microtasks,
                   calls, invoked, dynamicMarkerCreated, subs, listeners, events>>

Sub(o, entry, threw) ==
    [obs |-> o, entry |-> entry, threw |-> threw, emitted |-> 0, inZone |-> 0]

\* observable.subscribe(observer). Of the Subject's observable it only adds an
\* observer; of Observable.create's it runs
\*   this._markers.get(marker).then(m => m.AddListener(..))
\* which throws when the entry is absent.
Subscribe(o) ==
    /\ o \in 1..Len(observables)
    /\ LET s == Len(subs) + 1
           e == Get(observables[o].handle)
       IN IF observables[o].inert
          THEN /\ subs' = Append(subs, Sub(o, e, FALSE))
               /\ UNCHANGED <<reactions, microtasks>>
          ELSE IF e = None
          THEN /\ subs' = Append(subs, Sub(o, e, TRUE))
               /\ UNCHANGED <<reactions, microtasks>>
          ELSE /\ subs' = Append(subs, Sub(o, e, FALSE))
               /\ Then(e, Reaction("listen", s, e))
    /\ UNCHANGED <<dirVars, svcVars, promises, requests, calls, invoked,
                   dynamicMarkerCreated, observables, listeners, events>>

\* A listener on the first segment alone.
ListenFirstOnly(x) == IF x = <<>> THEN {} ELSE {x[1]}

\* x.forEach(line => line.AddListener(..)): the objects that get a listener.
ListenTargets(x) == Range(x)

\* The subscription's reaction:
\*   x.forEach(line => line.AddListener(eventName, e => zone.run(() => observer.next(e))))
RunListen ==
    /\ microtasks # <<>>
    /\ Head1.kind = "listen"
    /\ LET s == Head1.id
           x == AsArray(Head1.p)
           name == observables[subs[s].obs].eventName
       IN /\ listeners' = listeners \cup
                {[native |-> n, eventName |-> name, sub |-> s] : n \in ListenTargets(x)}
          /\ Invoke({Invocation(n, "AddListener", "sub", s) : n \in ListenTargets(x)})
    /\ microtasks' = Tail(microtasks)
    /\ UNCHANGED <<dirVars, svcVars, promises, requests, reactions, calls,
                   dynamicMarkerCreated, observables, subs, events>>

\* The native objects promise p was created with.
Natives(p) == {<<p, i>> : i \in 1..promises[p].segs}

\* A native object that is on the map: created and not deleted.
Live(n) == Fulfilled(n[1]) /\ ~Deleted(n)

\* The listener e => this._zone.run(() => observer.next(e)): one emission,
\* delivered inside the zone.
Handler(sub) == [sub EXCEPT !.emitted = @ + 1, !.inZone = @ + 1]

\* The event eventName occurs on the live native object n: the SDK calls every
\* listener registered on n for that name. Events are macrotasks.
Event(n, eventName) ==
    /\ microtasks = <<>>
    /\ n[1] \in 1..Len(promises)
    /\ n \in Natives(n[1])
    /\ Live(n)
    /\ events' = Append(events, [native |-> n, eventName |-> eventName])
    /\ subs' = [s \in 1..Len(subs) |->
                  IF [native |-> n, eventName |-> eventName, sub |-> s] \in listeners
                  THEN Handler(subs[s])
                  ELSE subs[s]]
    /\ UNCHANGED <<dirVars, svcVars, promises, requests, reactions, microtasks,
                   calls, invoked, dynamicMarkerCreated, observables, listeners>>

(***************************************************************************)
(* Specifications.                                                         *)
(***************************************************************************)
\* IIconInfo.size and IIconInfo.markerOffsetRatio, each of them optional (set).
\* The ratio is counted in tenths, and so is the anchor computed from it.
Sizes == {[set |-> FALSE, width |-> 0, height |-> 0],
          [set |-> TRUE, width |-> 2, height |-> 3]}
Ratios == {[set |-> FALSE, x |-> 0, y |-> 0],
           [set |-> TRUE, x |-> 5, y |-> 10],
           [set |-> TRUE, x |-> 0, y |-> 7]}
IconInfos == [size : Sizes, markerOffsetRatio : Ratios]

\* The iconInfo of a marker whose IconInfo is not set, and the one the
\* specifications that do not vary it use.
NoIconInfo ==
    [size |-> [set |-> FALSE, width |-> 0, height |-> 0],
     markerOffsetRatio |-> [set |-> FALSE, x |-> 0, y |-> 0]]
CentredIconInfo ==
    [size |-> [set |-> TRUE, width |-> 2, height |-> 3],
     markerOffsetRatio |-> [set |-> TRUE, x |-> 5, y |-> 10]]

\* The inputs of a MapMarker: IconInfo tells whether marker.IconInfo is set,
\* iconInfo is its value.
MarkerInputs ==
    {m \in [InClusterLayer : BOOLEAN, InCustomLayer : BOOLEAN, IconInfo : BOOLEAN,
            iconInfo : IconInfos] :
        ~m.IconInfo => m.iconInfo = NoIconInfo}
PolylineInputs == [InCustomLayer : BOOLEAN]

\* The inputs with one value of the icon info.
PlainInputs == {m \in MarkerInputs : m.IconInfo => m.iconInfo = CentredIconInfo}

\* Overlays placed on the map itself, markers with and without IconInfo.
Init ==
    /\ marker \in [Markers -> {m \in PlainInputs : ~m.InClusterLayer /\ ~m.InCustomLayer}]
    /\ polyline \in [Polylines -> {l \in PolylineInputs : ~l.InCustomLayer}]
    /\ Constructed

\* Every combination of the layer inputs.
InitRoute ==
    /\ marker \in [Markers -> PlainInputs]
    /\ polyline \in [Polylines -> PolylineInputs]
    /\ Constructed

\* The Add calls, at most MaxPromises of them in a run.
Create ==
    \/ \E h \in Markers : Len(promises) < MaxPromises /\ AddMarker(h)
    \/ \E h \in Polylines, n \in 0..MaxSegs :
          Len(promises) < MaxPromises /\ AddPolyline(h, n)

\* The same with one Add more: a handle can be added twice.
CreateTwice ==
    \/ \E h \in Markers : Len(promises) < MaxPromises + 1 /\ AddMarker(h)
    \/ \E h \in Polylines, n \in 0..MaxSegs :
          Len(promises) < MaxPromises + 1 /\ AddPolyline(h, n)

Settle ==
    \/ \E p \in PromiseIds : Resolve(p)
    \/ \E p \in PromiseIds : Reject(p)

\* The mutating calls, at most MaxCalls of them in a run.
Mutate ==
    \/ \E op \in MarkerUpdateOps, h \in Markers : Len(calls) < MaxCalls /\ MarkerUpdate(op, h)
    \/ \E h \in Markers : Len(calls) < MaxCalls /\ UpdateIcon(h)
    \/ \E h \in Markers : Len(calls) < MaxCalls /\ DeleteMarker(h)
    \/ \E h \in Polylines : Len(calls) < MaxCalls /\ SetOptions(h)
    \/ \E h \in Polylines : Len(calls) < MaxCalls /\ UpdatePolyline(h)
    \/ \E h \in Polylines : Len(calls) < MaxCalls /\ DeletePolyline(h)

\* The same with one call more.
MutateTwice ==
    \/ \E op \in MarkerUpdateOps, h \in Markers : Len(calls) < MaxCalls + 1 /\ MarkerUpdate(op, h)
    \/ \E h \in Markers : Len(calls) < MaxCalls + 1 /\ UpdateIcon(h)
    \/ \E h \in Markers : Len(calls) < MaxCalls + 1 /\ DeleteMarker(h)
    \/ \E h \in Polylines : Len(calls) < MaxCalls + 1 /\ SetOptions(h)
    \/ \E h \in Polylines : Len(calls) < MaxCalls + 1 /\ UpdatePolyline(h)
    \/ \E h \in Polylines : Len(calls) < MaxCalls + 1 /\ DeletePolyline(h)

React ==
    \/ RunAnchor
    \/ RunMarkerUpdate
    \/ RunUpdateIcon
    \/ RunDeleteMarker
    \/ RunSetOptions
    \/ RunUpdatePolyline
    \/ RunDeletePolyline

Observe ==
    \/ \E e \in EventNames, h \in Handles :
          Len(observables) < MaxSubs /\ CreateEventObservable(e, h)
    \/ \E o \in 1..Len(observables) : Len(subs) < MaxSubs /\ Subscribe(o)
    \/ RunListen
    \/ \E p \in PromiseIds, i \in 1..MaxSegs, e \in EventNames :
          Len(events) < MaxEvents /\ Event(<<p, i>>, e)

\* Both services with their event observables.
Next ==
    \/ CreateTwice
    \/ Settle
    \/ Mutate
    \/ React
    \/ Observe

Spec == Init /\ [][Next]_vars

\* The Add / Update / SetOptions / Delete calls alone, with one call more.
NextCalls ==
    \/ CreateTwice
    \/ Settle
    \/ MutateTwice
    \/ React

SpecCalls == Init /\ [][NextCalls]_vars

\* One run of Add, one call and the callbacks.
NextDelete ==
    \/ Create
    \/ Settle
    \/ Mutate
    \/ React

SpecDelete == Init /\ [][NextDelete]_vars

\* The polyline service alone, with one call more.
NextPolyline ==
    \/ \E h \in Polylines, n \in 0..MaxSegs :
          Len(promises) < MaxPromises /\ AddPolyline(h, n)
    \/ Settle
    \/ \E h \in Polylines : Len(calls) < MaxCalls + 1 /\ SetOptions(h)
    \/ \E h \in Polylines : Len(calls) < MaxCalls + 1 /\ UpdatePolyline(h)
    \/ \E h \in Polylines : Len(calls) < MaxCalls + 1 /\ DeletePolyline(h)
    \/ RunSetOptions
    \/ RunUpdatePolyline
    \/ RunDeletePolyline

SpecPolyline == Init /\ [][NextPolyline]_vars

\* Markers on the map itself with every icon info.
InitIcon ==
    /\ marker \in [Markers -> {m \in MarkerInputs : ~m.InClusterLayer /\ ~m.InCustomLayer}]
    /\ polyline \in [Polylines -> {l \in PolylineInputs : ~l.InCustomLayer}]
    /\ Constructed

\* The marker service's calls that set the anchor or emit DynamicMarkerCreated.
NextIcon ==
    \/ \E h \in Markers : Len(promises) < MaxPromises + 1 /\ AddMarker(h)
    \/ Settle
    \/ \E h \in Markers : Len(calls) < MaxCalls /\ MarkerUpdate("UpdateAnchor", h)
    \/ \E h \in Markers : Len(calls) < MaxCalls /\ UpdateIcon(h)
    \/ RunAnchor
    \/ RunMarkerUpdate
    \/ RunUpdateIcon

SpecIcon == InitIcon /\ [][NextIcon]_vars

\* The creation requests under every combination of the layer inputs.
NextRoute ==
    \/ CreateTwice
    \/ Settle
    \/ RunAnchor

SpecRoute == InitRoute /\ [][NextRoute]_vars

(***************************************************************************)
(* Properties.                                                             *)
(***************************************************************************)
Min(a, b) == IF a < b THEN a ELSE b

\* Invocations made by the reaction of call c.
ByCall(c) == {e \in BagToSet(invoked) : e.src = "call" /\ e.id = c}

\* A Delete call for the handle of promise p has deleted a native object of p.
DeletedByDeleteCall(p) ==
    \E e \in BagToSet(invoked) :
        /\ e.native[1] = p
        /\ e.src = "call"
        /\ calls[e.id].op \in DeleteOps
        /\ calls[e.id].handle = promises[p].handle

\* C1: once the native object(s) of a handle have been created, the handle's
\* entry is in the lookup table until a Delete call for the handle has deleted
\* them, and an entry is removed by nothing but a Delete call for its handle.
C1_EntryFromCreationUntilDeletion ==
    /\ \A p \in PromiseIds :
          (promises[p].state = "resolved" /\ ~DeletedByDeleteCall(p))
              => Get(promises[p].handle) # None
    /\ \A h \in Handles :
          ((\E p \in PromiseIds : promises[p].handle = h) /\ Get(h) = None)
              => \E c \in CallIds : /\ calls[c].op \in DeleteOps
                                    /\ calls[c].handle = h
                                    /\ calls[c].hadEntry
                                    /\ calls[c].status = "fulfilled"

\* C2: a mutating operation on a handle without an entry completes without
\* raising an error and invokes no native method.
C2_AbsentEntryIsNoOp ==
    [][(Len(calls') = Len(calls) + 1 /\ ~calls'[Len(calls')].hadEntry)
          => /\ calls'[Len(calls')].status = "fulfilled"
             /\ UNCHANGED <<invoked, listeners, reactions, microtasks>>
             /\ UNCHANGED <<_markers, _polylines>>]_vars

\* C3: no method of a native object is invoked, and no listener registered on
\* it, before the creation promise that yields the object has resolved.
C3_NoNativeCallBeforeCreation ==
    /\ \A e \in BagToSet(invoked) : promises[e.native[1]].state = "resolved"
    /\ \A l \in listeners : promises[l.native[1]].state = "resolved"

\* C3 witness: calls and a subscription made while creation was pending have
\* reached the native object after it resolved.
C3_Witness ==
    /\ \E c \in CallIds : calls[c].pendingAtCall /\ ByCall(c) # {}
    /\ \E e \in BagToSet(invoked) : e.method = "AddListener"
    /\ \E e \in BagToSet(invoked) : e.src = "add"

\* C4: a mutating call made while creation was pending, once its promise is
\* fulfilled, has invoked the native mutator, and exactly once per native object.
C4_MutatorInvokedOnce ==
    \A c \in CallIds :
        (/\ calls[c].op \notin DeleteOps
         /\ calls[c].pendingAtCall
         /\ calls[c].status = "fulfilled")
        => /\ \E e \in ByCall(c) : e.method = Mutator(calls[c].op)
           /\ \A e \in ByCall(c) : e.method = Mutator(calls[c].op) => Count(e) = 1

\* The handles whose entry resolves to the native object n.
Holders(n) ==
    {h \in Handles : Get(h) # None /\ n \in Range(promises[Get(h)].val)}

\* C5: every native object that has been created and not deleted is the
\* resolved value (or in the resolved array) of exactly one handle's entry.
C5_LiveNativeReachable ==
    \A p \in PromiseIds : \A n \in Natives(p) :
        Live(n) => Cardinality(Holders(n)) = 1

\* The service AddMarker / AddPolyline is to send the request of handle h to.
ExpectedRoute(h) ==
    IF IsMarker(h)
    THEN CASE marker[h].InClusterLayer -> "cluster"
           [] ~marker[h].InClusterLayer /\ marker[h].InCustomLayer -> "layer"
           [] OTHER -> "map"
    ELSE IF polyline[h].InCustomLayer THEN "layer" ELSE "map"

\* C6: each Add call issues exactly one creation request, to the cluster
\* service (markers with InClusterLayer), else to the layer service
\* (InCustomLayer), else to the map service, and stores the promise under the
\* handle.
C6_OneRequestRouted ==
    /\ Len(requests) = Len(promises)
    /\ \A p \in PromiseIds :
          /\ Cardinality({i \in 1..Len(requests) : requests[i].promise = p}) = 1
          /\ requests[p].promise = p
          /\ requests[p].svc = ExpectedRoute(promises[p].handle)
    /\ \A h \in Handles :
          LET mine == {p \in PromiseIds : promises[p].handle = h}
          IN Get(h) = IF mine = {} THEN None
                      ELSE CHOOSE p \in mine : \A q \in mine : q <= p

\* C6 witness: a marker in a cluster layer that is also a custom layer went to
\* the cluster service, and a polyline in a custom layer to the layer service.
C6_Witness ==
    /\ \E p \in PromiseIds :
          /\ IsMarker(promises[p].handle)
          /\ marker[promises[p].handle].InClusterLayer
          /\ marker[promises[p].handle].InCustomLayer
          /\ requests[p].svc = "cluster"
    /\ \E p \in PromiseIds :
          /\ ~IsMarker(promises[p].handle)
          /\ requests[p].svc = "layer"

\* C7: when the promise returned by DeleteMarker / DeletePolyline for a handle
\* with an entry is fulfilled, Delete has been invoked on every native object
\* of the creation promise and the handle's entry is gone.
C7_DeleteFulfilledAfterDeletion ==
    [][\A c \in CallIds :
          (/\ calls[c].op \in DeleteOps
           /\ calls[c].hadEntry
           /\ calls[c].status # "fulfilled"
           /\ calls'[c].status = "fulfilled")
          => /\ Get(calls[c].handle)' = None
             /\ \A n \in Natives(calls[c].p) : Deleted(n)']_vars

\* C7 witness: DeletePolyline of a two-segment polyline has been fulfilled.
C7_Witness ==
    \E c \in CallIds :
        /\ calls[c].op = "DeletePolyline"
        /\ calls[c].hadEntry
        /\ calls[c].status = "fulfilled"
        /\ promises[calls[c].p].segs >= 2


\* The event names BingPolylineService documents as not supported.
Unsupported == {"mousemove", "rightclick"}

\* Subscription s was made on a handle with an entry, that creation promise has
\* resolved, and event ev is an occurrence of the observable's event on one of
\* the native objects of that promise.
Hears(s, ev) ==
    /\ subs[s].entry # None
    /\ promises[subs[s].entry].state = "resolved"
    /\ ev.native \in Natives(subs[s].entry)
    /\ ev.eventName = observables[subs[s].obs].eventName

EmitsOnce(s) ==
    /\ subs'[s].emitted = subs[s].emitted + 1
    /\ subs'[s].inZone = subs[s].inZone + 1

C9_SurplusSegmentsDeleted ==
    [][\A c \in CallIds :
          (/\ calls[c].op = "UpdatePolyline"
           /\ calls[c].hadEntry
           /\ calls[c].status = "pending"
           /\ calls'[c].status = "fulfilled")
          => LET x == promises[calls[c].p].val
                 n == Len(x)
                 k == calls'[c].k
             IN /\ \A i \in 1..n :
                      /\ (i <= k) <=> (CopiesIn(Invocation(x[i], "SetPath", "call", c), invoked') = 1)
                      /\ (i > k) <=> (CopiesIn(Invocation(x[i], "Delete", "call", c), invoked') = 1)
                /\ promises'[calls[c].p].val = SubSeq(x, 1, Min(n, k))]_vars

\* C10: the polyline service registers no listener for 'mousemove' or
\* 'rightclick' and their observables never emit; for any other event name
\* a listener belongs to a subscription of an observable for that name and
\* handle.
C10_UnsupportedNeverListened ==
    /\ \A s \in SubIds :
          LET o == observables[subs[s].obs]
          IN (~IsMarker(o.handle) /\ o.eventName \in Unsupported)
                => /\ subs[s].emitted = 0
                   /\ \A e \in BagToSet(invoked) : ~(e.src = "sub" /\ e.id = s)
                   /\ \A i \in 1..Len(microtasks) :
                         ~(microtasks[i].kind = "listen" /\ microtasks[i].id = s)
                   /\ \A p \in PromiseIds : \A i \in 1..Len(reactions[p]) :
                         ~(reactions[p][i].kind = "listen" /\ reactions[p][i].id = s)
    /\ \A l \in listeners :
          /\ ~IsMarker(promises[l.native[1]].handle) => l.eventName \notin Unsupported
          /\ l.sub \in SubIds
          /\ observables[subs[l.sub].obs].eventName = l.eventName
          /\ observables[subs[l.sub].obs].handle = promises[l.native[1]].handle

\* C10 witness: 'mousemove' occurred on a native polyline whose handle has a
\* subscriber to the 'mousemove' observable.
C10_Witness ==
    \E s \in SubIds :
        /\ ~IsMarker(observables[subs[s].obs].handle)
        /\ observables[subs[s].obs].eventName = "mousemove"
        /\ Len(events) = 1
        /\ events[1].eventName = "mousemove"
        /\ subs[s].entry # None
        /\ events[1].native[1] = subs[s].entry
\* The native objects the call c invoked method on.
InvokedBy(c, method) ==
    {e.native : e \in {d \in ByCall(c) : d.method = method}}

\* C11: the callback that fulfils a SetOptions call invokes SetOptions exactly
\* once on each segment of the array the handle's creation promise holds, and
\* on nothing else; the callback that fulfils a DeletePolyline call invokes
\* Delete on each of them; a single native polyline counts as an array of one.
C11_AppliedToEverySegment ==
    [][\A c \in CallIds :
          (/\ calls[c].op \in {"SetOptions", "DeletePolyline"}
           /\ calls[c].status = "pending"
           /\ calls'[c].status = "fulfilled"
           /\ calls[c].p # None)
          => LET p == calls[c].p
                 x == AsArray(p)
                 method == IF calls[c].op = "SetOptions" THEN "SetOptions" ELSE "Delete"
             IN /\ ~promises[p].isArray => Len(x) = 1
                /\ \A i \in 1..Len(x) :
                      CopiesIn(Invocation(x[i], method, "call", c), invoked') = 1
                /\ \A e \in BagToSet(invoked') :
                      (e.src = "call" /\ e.id = c)
                      => e.method = method /\ e.native \in Range(x)]_vars

\* C11 witness: SetOptions and DeletePolyline were both fulfilled on a polyline
\* of several segments, each reaching at least two of them.
C11_Witness ==
    /\ \E c \in CallIds :
          /\ calls[c].op = "SetOptions"
          /\ calls[c].status = "fulfilled"
          /\ calls[c].p # None
          /\ promises[calls[c].p].isArray
          /\ Cardinality(InvokedBy(c, "SetOptions")) >= 2
    /\ \E c \in CallIds :
          /\ calls[c].op = "DeletePolyline"
          /\ calls[c].status = "fulfilled"
          /\ calls[c].p # None
          /\ promises[calls[c].p].isArray
          /\ Cardinality(InvokedBy(c, "Delete")) >= 2

\* The emissions of DynamicMarkerCreated that AddMarker's callback for the
\* creation promise p made, as positions in the marker's emissions.
EmittedByAdd(p) ==
    LET es == dynamicMarkerCreated[promises[p].handle]
    IN {i \in 1..Len(es) : es[i].src = "add" /\ es[i].id = p}

\* The SetAnchor invocations that AddMarker's callback for p made.
AnchoredBy(p) ==
    {e \in BagToSet(invoked) : e.method = "SetAnchor" /\ e.src = "add" /\ e.id = p}

\* AddMarker's callback for p has run.
AnchorRan(p) ==
    /\ promises[p].state = "resolved"
    /\ \A i \in 1..Len(microtasks) :
          ~(microtasks[i].kind = "anchor" /\ microtasks[i].p = p)

\* The anchor the claim gives for icon info v.
ExpectedAnchor(v) ==
    IF v.size.set /\ v.markerOffsetRatio.set
    THEN [x |-> v.size.width * v.markerOffsetRatio.x,
          y |-> v.size.height * v.markerOffsetRatio.y]
    ELSE [x |-> 0, y |-> 0]

\* C12: for a marker with IconInfo, once AddMarker's callback for a creation
\* promise has run it has emitted DynamicMarkerCreated exactly once, with the
\* icon info and before the anchor was set, and has invoked SetAnchor exactly
\* once on the native marker with (width * ratio.x, height * ratio.y), or (0, 0)
\* when size or markerOffsetRatio is missing; before that, and for a marker
\* without IconInfo, it has done neither.
C12_IconInfoEmittedThenAnchored ==
    \A p \in PromiseIds :
        IsMarker(promises[p].handle) =>
            LET m == marker[promises[p].handle]
                es == dynamicMarkerCreated[promises[p].handle]
            IN IF m.IconInfo /\ AnchorRan(p)
               THEN /\ Cardinality(EmittedByAdd(p)) = 1
                    /\ \A i \in EmittedByAdd(p) :
                          es[i].value = m.iconInfo /\ ~es[i].anchored
                    /\ Cardinality(AnchoredBy(p)) = 1
                    /\ \A e \in AnchoredBy(p) :
                          /\ e.native = <<p, 1>>
                          /\ e.args = <<ExpectedAnchor(m.iconInfo)>>
                          /\ Count(e) = 1
               ELSE EmittedByAdd(p) = {} /\ AnchoredBy(p) = {}

\* C12 witness: a marker with a size and a markerOffsetRatio was added twice,
\* and each callback has emitted and set an anchor with x # y, neither 0.
C12_Witness ==
    /\ Len(promises) = 2
    /\ \A p \in PromiseIds :
          /\ IsMarker(promises[p].handle)
          /\ marker[promises[p].handle].IconInfo
          /\ EmittedByAdd(p) # {}
          /\ \E e \in AnchoredBy(p) :
                e.args[1].x > 0 /\ e.args[1].y > 0 /\ e.args[1].x # e.args[1].y

====
